---- MODULE Spec2Model ----
(***************************************************************************)
(* A model of the storage node of 9ifrashaikh/distributed-system:          *)
(*   - internal/storage/filestore.go   the local object store (FileStore)  *)
(*   - internal/cluster/node.go        membership and health (ClusterManager)*)
(*   - internal/replication/manager.go the replication coordinator          *)
(*                                                                         *)
(* Conventions.  A Go map is a function whose DOMAIN is the set of keys     *)
(* present.  A pointer to a StorageObject is the object's ID (each Put     *)
(* allocates one object and gives it a fresh ID); `heap` maps pointers to  *)
(* the objects they point to.  The disk is a function from file paths to   *)
(* file contents.  time.Now() reads `now`, a clock that shows whole minutes. *)
(***************************************************************************)
EXTENDS Integers, Sequences, FiniteSets, TLC

VARIABLES
    \* ---- FileStore (filestore.go:17-22) and the file system under basePath
    objects,    \* fs.objects: key -> pointer to StorageObject
    heap,       \* the StorageObjects the program can still reach
    mutex,      \* fs.mutex: [w: threads holding Lock, r: threads holding RLock]
    disk,       \* payload files: path -> bytes
    meta,       \* metadata/objects.json: key -> StorageObject (by value)
    th,         \* per calling goroutine: position in Put/Get/Delete/List and locals
    lastRet,    \* what the store call that returned last gave its caller (until the next call starts)
    listed,     \* the snapshot of List that a caller has kept: the map it was given, and
                \* what that map reported when List returned
    now,        \* the clock
    \* ---- history of the store, kept for stating properties
    lastPut,    \* key -> payload of the last successful Put (until Delete)
    deleted,    \* key -> backing files of the entry a Delete removed (until re-Put)
    orphans,    \* backing files of entries replaced by a re-Put
    getCount,   \* pointer -> the number of Gets that updated the object's statistics
    \* ---- ClusterManager (node.go:22-27)
    nodes,      \* cm.nodes: node ID -> Node
    currentNode,\* cm.currentNode: the Node made for this process at start-up
    lastSel,    \* what the placement query that returned last gave its caller
                \* (until the membership changes or the next query)
    lastSweep,  \* the health sweep that ran last: when, and the probes it sent
                \* (until a registration or a query)
    \* ---- ReplicationManager (manager.go:16-21)
    tasks,      \* the ReplicationTask records ever allocated; a pointer is a position
    pending,    \* rm.pendingReplications: object ID -> pointer to ReplicationTask
    execs,      \* the running executeReplication goroutines, by task pointer
    lastRep,    \* what the ReplicateObject call that returned last gave its caller
                \* (until the next step of the coordinator or the membership)
    \* ---- history of the coordinator, kept for stating properties
    hist,       \* task pointer -> whether the payload was buffered, the calls of
                \* replicateToNode that returned, the acknowledgements among them,
                \* and the requests sent and not yet answered
    \* ---- APIServer (handlers.go:15-23)
    patterns,   \* api.tracker.patterns
    resp        \* the response the handler that ran last wrote

storeVars == <<objects, heap, mutex, disk, meta, th, lastRet, listed, lastPut, deleted, orphans, getCount>>
clusterVars == <<nodes, currentNode, lastSel, lastSweep>>
replVars == <<tasks, pending, execs, lastRep, hist>>
apiVars == <<patterns, resp>>
vars == <<storeVars, now, clusterVars, replVars, apiVars>>

----------------------------------------------------------------------------
\* Bounds of the model
NThreads == 2       \* goroutines calling the store
MaxClock == 2       \* the clock stops here; every Put takes one tick
MaxLen == 2         \* longest payload
MaxAccess == 2      \* a Get is not started on an object read this often
MaxCount == 2       \* largest count asked of SelectNodesForReplication
MaxTasks == 2       \* ReplicateObject calls that reach the selection of targets
ReplicationFactor == 2  \* rm.replicationFactor (manager.go:37), the copies the process is configured to ask for

\* Program constants
SelfCapacity == 10  \* node.go:38  10 GB, in GB like every Capacity and Used here
StaleAfter == 1     \* node.go:131 60 s, in ticks of the clock

Threads == 1..NThreads
Keys == {"k1", "k2"}
Bytes == {1}
Payloads == UNION {[1..n -> Bytes] : n \in 0..MaxLen}
\* an io.Reader: it delivers `bytes`, then io.EOF (err = FALSE) or an error
Streams == [bytes : Payloads, err : BOOLEAN]
ContentTypes == {"text/csv"}

SelfID == "n0"
NodeIDs == {"n0", "n1", "n2"}
Statuses == {"healthy", "unhealthy", "unknown"}
\* <<Used, Capacity>> of a registering node: empty, half full, full
Loads == {<<0, 2>>, <<1, 2>>, <<2, 2>>}
ObjIDs == {"o1"}
\* the registrations while replications are watched: one peer comes and goes
\* (healthy, unhealthy), and an unhealthy node may register under this process's ID
ReplRegistrations == {<<"n1", "healthy">>, <<"n1", "unhealthy">>, <<SelfID, "unhealthy">>}

----------------------------------------------------------------------------
\* Helpers on functions-as-maps
MapPut(m, k, v) == [x \in DOMAIN m \cup {k} |-> IF x = k THEN v ELSE m[x]]
MapDel(m, k) == [x \in DOMAIN m \ {k} |-> m[x]]
Restrict(m, S) == [x \in DOMAIN m \cap S |-> m[x]]
Prefix(s, n) == SubSeq(s, 1, n)

RECURSIVE MdFold(_, _)
MdFold(s, h) == IF s = <<>> THEN h ELSE MdFold(Tail(s), (h * 31 + Head(s) + 7) % 65536)

\* md5 of a byte sequence (filestore.go:63,72): a digest, a function of the bytes
\* alone. The model folds the bytes into 16 bits.
Md5(b) == MdFold(b, Len(b) + 1)

ObjectID_KeyOnly(key, t) == <<key, 0>>

\* filestore.go:50  objectID = md5(key + time.Now().String()): a function of the
\* key and the instant, kept as the pair (distinct inputs give distinct IDs).
ObjectID(key, t) == <<key, t>>
NoID == <<"", 0>>

\* filestore.go:53  filepath.Join(fs.basePath, objectID)
FilePathOf(id) == <<"data", id[1], id[2]>>

\* json.MarshalIndent(fs.objects): the pointers are followed, the document holds values
Marshal(objs, hp) == [k \in DOMAIN objs |-> hp[objs[k]]]

osRemove_Noop(d, path) == d

\* os.Remove(path): the file is gone afterwards (a missing file is no error here)
osRemove(d, path) == MapDel(d, path)

RemoveReplicas_None(d, o) == d

\* filestore.go:138-140  for _, replica := range obj.Replicas { os.Remove(replica.FilePath) }
RemoveReplicas(d, o) == Restrict(d, DOMAIN d \ {o.Replicas[i].FilePath : i \in DOMAIN o.Replicas})

saveMetadata_Skip(objs, hp) == meta

\* saveMetadata (filestore.go:163-166): the whole index replaces the document
saveMetadata(objs, hp) == Marshal(objs, hp)

----------------------------------------------------------------------------
\* The readers-writer mutex
CanLock_Unguarded(t) == TRUE

CanLock_SharedWithWriters(t) == mutex.r = {}

\* sync.RWMutex.Lock proceeds when no goroutine holds the mutex in either mode
CanLock(t) == mutex.w = {} /\ mutex.r = {}

\* sync.RWMutex.RLock proceeds when no writer holds it
CanRLock(t) == mutex.w = {}

Idle == [pc |-> "idle", key |-> "", data |-> [bytes |-> <<>>, err |-> FALSE],
         ctype |-> "", id |-> NoID, written |-> <<>>, obj |-> NoID, cnt |-> 0,
         pre |-> <<>>]

\* A return: err = "" is success; bytes is what the returned stream reads; desc is
\* the returned descriptor; list the returned map. pre and id are history: the
\* store as it was when the call started, and the object ID a Put generated.
NoRet == [op |-> "", key |-> "", err |-> "", bytes |-> <<>>, desc |-> <<>>,
          list |-> <<>>, pre |-> <<>>, id |-> NoID]

\* Objects the program can still reach: through the index, a goroutine's local
\* variables, or a snapshot that List returned. The rest is garbage.
Roots(objs, thr, ret, lst) ==
    {objs[k] : k \in DOMAIN objs}
      \cup {thr[t].obj : t \in Threads}
      \cup (IF ret.list = <<>> THEN {} ELSE {ret.list[1][k] : k \in DOMAIN ret.list[1]})
      \cup (IF lst = <<>> THEN {} ELSE {lst[1].ptrs[k] : k \in DOMAIN lst[1].ptrs})

Collect(hp, objs, thr, ret, lst) == Restrict(hp, Roots(objs, thr, ret, lst))

NoSel == [op |-> "", count |-> 0, one |-> <<>>, many |-> <<>>]

NoRep == [op |-> "", obj |-> "", err |-> "", task |-> 0]

NoSweep == [op |-> "", at |-> 0, probes |-> <<>>]

NoResp == [handler |-> "", status |-> 0, body |-> <<>>]

\* NewFileStore (filestore.go:24-39) on an empty directory,
\* NewClusterManager (node.go:29-47) and NewAPIServer (handlers.go:25-34)
Init ==
    /\ objects = <<>>
    /\ heap = <<>>
    /\ mutex = [w |-> {}, r |-> {}]
    /\ disk = <<>>
    /\ meta = <<>>
    /\ th = [t \in Threads |-> Idle]
    /\ lastRet = NoRet
    /\ listed = <<>>
    /\ now = 0
    /\ lastPut = <<>>
    /\ deleted = <<>>
    /\ orphans = {}
    /\ getCount = <<>>
    /\ currentNode = [ID |-> SelfID, Status |-> "healthy", LastSeen |-> 0,
                      Capacity |-> SelfCapacity, Used |-> 0]
    /\ nodes = [id \in {SelfID} |-> currentNode]
    /\ lastSel = NoSel
    /\ lastSweep = NoSweep
    /\ tasks = <<>>
    /\ pending = <<>>
    /\ execs = <<>>
    /\ lastRep = NoRep
    /\ hist = <<>>
    /\ patterns = <<>>
    /\ resp = NoResp

----------------------------------------------------------------------------
\* FileStore.Put (filestore.go:45-99)

\* no call of the store is under way
AllIdle == \A t \in Threads : th[t].pc = "idle"

\* The index and the persisted document as a caller could observe them
Snapshot == [index |-> Marshal(objects, heap), meta |-> meta]

\* the call of goroutine t returns r (the deferred Unlock runs); lst is the
\* snapshot of List that a caller keeps from then on
ReturnKeeping(t, r, lst) ==
    /\ lastRet' = r
    /\ listed' = lst
    /\ th' = [th EXCEPT ![t] = Idle]
    /\ mutex' = [w |-> mutex.w \ {t}, r |-> mutex.r \ {t}]
    /\ heap' = Collect(heap, objects, th', r, lst)
    /\ getCount' = Restrict(getCount, DOMAIN heap')

Return(t, r) == ReturnKeeping(t, r, listed)

\* :46-53  fs.mutex.Lock(); the object ID is derived from the key and the instant
\* (the clock moves on during the call, so a later Put reads a later instant)
PutBegin(t, k, d, c) ==
    /\ th[t].pc = "idle"
    /\ CanLock(t)
    /\ now < MaxClock
    /\ mutex' = [mutex EXCEPT !.w = @ \cup {t}]
    /\ th' = [th EXCEPT ![t] = [Idle EXCEPT !.pc = "put_create", !.key = k, !.data = d,
                                            !.ctype = c, !.id = ObjectID(k, now),
                                            !.pre = <<Snapshot>>]]
    /\ now' = now + 1
    /\ UNCHANGED <<objects, heap, disk, meta, lastPut, deleted, orphans, getCount>>
    /\ lastRet' = NoRet
    /\ UNCHANGED <<listed, clusterVars, replVars, apiVars>>

\* :56-59  os.Create makes (or truncates) the file, or fails
PutCreate(t) ==
    /\ th[t].pc = "put_create"
    /\ \E ok \in BOOLEAN :
         /\ th' = [th EXCEPT ![t].pc = IF ok THEN "put_copy" ELSE "put_fail"]
         /\ disk' = IF ok THEN MapPut(disk, FilePathOf(th[t].id), <<>>) ELSE disk
    /\ UNCHANGED <<objects, heap, mutex, meta, lastRet, now, lastPut, deleted, orphans, getCount>>
    /\ UNCHANGED <<listed, clusterVars, replVars, apiVars>>

\* :63-70  io.Copy through the MultiWriter: n bytes reach the file and the hasher;
\* the copy fails on a short write (n < len) or when the reader ends in an error.
PutCopy(t) ==
    /\ th[t].pc = "put_copy"
    /\ \E n \in 0..Len(th[t].data.bytes) :
         LET w == Prefix(th[t].data.bytes, n)
             failed == n < Len(th[t].data.bytes) \/ th[t].data.err
         IN /\ disk' = MapPut(disk, FilePathOf(th[t].id), w)
            /\ th' = [th EXCEPT ![t].written = w,
                                ![t].pc = IF failed THEN "put_remove" ELSE "put_commit"]
    /\ UNCHANGED <<objects, heap, mutex, meta, lastRet, now, lastPut, deleted, orphans, getCount>>
    /\ UNCHANGED <<listed, clusterVars, replVars, apiVars>>

\* :68  os.Remove(filePath)
PutRemove(t) ==
    /\ th[t].pc = "put_remove"
    /\ disk' = osRemove(disk, FilePathOf(th[t].id))
    /\ th' = [th EXCEPT ![t].pc = "put_fail"]
    /\ UNCHANGED <<objects, heap, mutex, meta, lastRet, now, lastPut, deleted, orphans, getCount>>
    /\ UNCHANGED <<listed, clusterVars, replVars, apiVars>>

\* :58, :69  return nil, fmt.Errorf(...)   (deferred Unlock)
PutFail(t) ==
    /\ th[t].pc = "put_fail"
    /\ Return(t, [NoRet EXCEPT !.op = "Put", !.key = th[t].key, !.err = "IOFailure",
                               !.pre = th[t].pre, !.id = th[t].id])
    /\ UNCHANGED <<objects, disk, meta, now, lastPut, deleted, orphans>>
    /\ UNCHANGED <<clusterVars, replVars, apiVars>>

NewObject_HashBeforeWrite(id, key, written, ctype, t) ==
    [ID |-> id, Key |-> key, Size |-> Len(written), ContentType |-> ctype,
     Checksum |-> Md5(<<>>), CreatedAt |-> t, UpdatedAt |-> t,
     AccessCount |-> 0, LastAccess |-> t, StorageTier |-> "hot",
     Replicas |-> <<[NodeID |-> "node-1", FilePath |-> FilePathOf(id), Status |-> "active"]>>]

\* :72-93  the descriptor of the new object
NewObject(id, key, written, ctype, t) ==
    [ID |-> id, Key |-> key, Size |-> Len(written), ContentType |-> ctype,
     Checksum |-> Md5(written), CreatedAt |-> t, UpdatedAt |-> t,
     AccessCount |-> 0, LastAccess |-> t, StorageTier |-> "hot",
     Replicas |-> <<[NodeID |-> "node-1", FilePath |-> FilePathOf(id), Status |-> "active"]>>]

ReplicaFiles(o) == {o.Replicas[i].FilePath : i \in DOMAIN o.Replicas}

\* :95  fs.objects[key] = obj
PutCommit(t) ==
    /\ th[t].pc = "put_commit"
    /\ LET k == th[t].key
           id == th[t].id
           obj == NewObject(id, k, th[t].written, th[t].ctype, now)
       IN /\ objects' = MapPut(objects, k, id)
          /\ th' = [th EXCEPT ![t].pc = "put_save", ![t].obj = id]
          /\ heap' = Collect(MapPut(heap, id, obj), objects', th', lastRet, listed)
          /\ getCount' = Restrict(MapPut(getCount, id, 0), DOMAIN heap')
          /\ lastPut' = MapPut(lastPut, k, th[t].written)
          /\ orphans' = orphans \cup (IF k \in DOMAIN objects /\ objects[k] \in DOMAIN heap
                                      THEN ReplicaFiles(heap[objects[k]]) ELSE {})
          /\ deleted' = MapDel(deleted, k)
    /\ UNCHANGED <<mutex, disk, meta, lastRet, now>>
    /\ UNCHANGED <<listed, clusterVars, replVars, apiVars>>

\* :96-98  fs.saveMetadata(); return obj, nil   (deferred Unlock)
PutSave(t) ==
    /\ th[t].pc = "put_save"
    /\ meta' = saveMetadata(objects, heap)
    /\ Return(t, [NoRet EXCEPT !.op = "Put", !.key = th[t].key,
                               !.desc = <<heap[th[t].obj]>>,
                               !.pre = th[t].pre, !.id = th[t].id])
    /\ UNCHANGED <<objects, disk, now, lastPut, deleted, orphans>>
    /\ UNCHANGED <<clusterVars, replVars, apiVars>>

----------------------------------------------------------------------------
\* FileStore.Get (filestore.go:103-124)

\* :104-110  fs.mutex.Lock(); obj, exists := fs.objects[key]
GetBegin(t, k) ==
    /\ th[t].pc = "idle"
    /\ CanLock(t)
    /\ k \in DOMAIN objects => heap[objects[k]].AccessCount < MaxAccess
    /\ mutex' = [mutex EXCEPT !.w = @ \cup {t}]
    /\ th' = [th EXCEPT ![t] = IF k \in DOMAIN objects
                               THEN [Idle EXCEPT !.pc = "get_load", !.key = k, !.obj = objects[k],
                                                 !.pre = <<Snapshot>>]
                               ELSE [Idle EXCEPT !.pc = "get_notfound", !.key = k,
                                                 !.pre = <<Snapshot>>]]
    /\ UNCHANGED <<objects, heap, disk, meta, now, lastPut, deleted, orphans, getCount>>
    /\ lastRet' = NoRet
    /\ UNCHANGED <<listed, clusterVars, replVars, apiVars>>

\* :109  return nil, nil, fmt.Errorf("object not found")   (deferred Unlock)
GetNotFound(t) ==
    /\ th[t].pc = "get_notfound"
    /\ Return(t, [NoRet EXCEPT !.op = "Get", !.key = th[t].key, !.err = "NotFound",
                               !.pre = th[t].pre])
    /\ UNCHANGED <<objects, disk, meta, now, lastPut, deleted, orphans>>
    /\ UNCHANGED <<clusterVars, replVars, apiVars>>

\* :113  obj.AccessCount++ : the read
GetLoad(t) ==
    /\ th[t].pc = "get_load"
    /\ th' = [th EXCEPT ![t].cnt = heap[th[t].obj].AccessCount, ![t].pc = "get_store"]
    /\ UNCHANGED <<objects, heap, mutex, disk, meta, lastRet, now, lastPut, deleted, orphans, getCount>>
    /\ UNCHANGED <<listed, clusterVars, replVars, apiVars>>

\* :113-115  obj.AccessCount++ : the write; obj.LastAccess = time.Now(); fs.saveMetadata()
GetStore(t) ==
    /\ th[t].pc = "get_store"
    /\ heap' = [heap EXCEPT ![th[t].obj].AccessCount = th[t].cnt + 1,
                            ![th[t].obj].LastAccess = now]
    /\ getCount' = [getCount EXCEPT ![th[t].obj] = @ + 1]
    /\ meta' = saveMetadata(objects, heap')
    /\ th' = [th EXCEPT ![t].pc = "get_open"]
    /\ UNCHANGED <<objects, mutex, disk, lastRet, now, lastPut, deleted, orphans>>
    /\ UNCHANGED <<listed, clusterVars, replVars, apiVars>>

\* :118-123  os.Open(obj.Replicas[0].FilePath): the stream reads the file's bytes;
\* the open fails when the file is missing and may fail for other reasons
GetOpen(t) ==
    /\ th[t].pc = "get_open"
    /\ LET o == heap[th[t].obj]
           path == o.Replicas[1].FilePath
       IN \E ok \in BOOLEAN :
            IF ok /\ path \in DOMAIN disk
            THEN Return(t, [NoRet EXCEPT !.op = "Get", !.key = th[t].key,
                                         !.bytes = disk[path], !.desc = <<o>>,
                                         !.pre = th[t].pre])
            ELSE Return(t, [NoRet EXCEPT !.op = "Get", !.key = th[t].key,
                                         !.err = "IOFailure", !.pre = th[t].pre])
    /\ UNCHANGED <<objects, disk, meta, now, lastPut, deleted, orphans>>
    /\ UNCHANGED <<clusterVars, replVars, apiVars>>

----------------------------------------------------------------------------
\* FileStore.Delete (filestore.go:128-146)

\* :129-135  fs.mutex.Lock(); obj, exists := fs.objects[key]
DeleteBegin(t, k) ==
    /\ th[t].pc = "idle"
    /\ CanLock(t)
    /\ mutex' = [mutex EXCEPT !.w = @ \cup {t}]
    /\ th' = [th EXCEPT ![t] = IF k \in DOMAIN objects
                               THEN [Idle EXCEPT !.pc = "del_remove", !.key = k, !.obj = objects[k],
                                                 !.pre = <<Snapshot>>]
                               ELSE [Idle EXCEPT !.pc = "del_notfound", !.key = k,
                                                 !.pre = <<Snapshot>>]]
    /\ UNCHANGED <<objects, heap, disk, meta, now, lastPut, deleted, orphans, getCount>>
    /\ lastRet' = NoRet
    /\ UNCHANGED <<listed, clusterVars, replVars, apiVars>>

\* :134  return fmt.Errorf("object not found")   (deferred Unlock)
DeleteNotFound(t) ==
    /\ th[t].pc = "del_notfound"
    /\ Return(t, [NoRet EXCEPT !.op = "Delete", !.key = th[t].key, !.err = "NotFound",
                               !.pre = th[t].pre])
    /\ UNCHANGED <<objects, disk, meta, now, lastPut, deleted, orphans>>
    /\ UNCHANGED <<clusterVars, replVars, apiVars>>

\* :138-140  os.Remove of every replica's file
DeleteRemove(t) ==
    /\ th[t].pc = "del_remove"
    /\ disk' = RemoveReplicas(disk, heap[th[t].obj])
    /\ th' = [th EXCEPT ![t].pc = "del_commit"]
    /\ UNCHANGED <<objects, heap, mutex, meta, lastRet, now, lastPut, deleted, orphans, getCount>>
    /\ UNCHANGED <<listed, clusterVars, replVars, apiVars>>

\* :142-145  delete(fs.objects, key); fs.saveMetadata(); return nil   (deferred Unlock)
DeleteCommit(t) ==
    /\ th[t].pc = "del_commit"
    /\ LET k == th[t].key
           r == [NoRet EXCEPT !.op = "Delete", !.key = k, !.pre = th[t].pre]
       IN /\ objects' = MapDel(objects, k)
          /\ deleted' = MapPut(deleted, k, ReplicaFiles(heap[th[t].obj]))
          /\ lastPut' = MapDel(lastPut, k)
          /\ lastRet' = r
          /\ th' = [th EXCEPT ![t] = Idle]
          /\ mutex' = [w |-> mutex.w \ {t}, r |-> mutex.r \ {t}]
          /\ heap' = Collect(heap, objects', th', r, listed)
          /\ getCount' = Restrict(getCount, DOMAIN heap')
          /\ meta' = saveMetadata(objects', heap')
    /\ UNCHANGED <<disk, now, orphans>>
    /\ UNCHANGED <<listed, clusterVars, replVars, apiVars>>

----------------------------------------------------------------------------
\* FileStore.List (filestore.go:150-159)

\* :151  fs.mutex.RLock()
ListBegin(t) ==
    /\ th[t].pc = "idle"
    /\ CanRLock(t)
    /\ mutex' = [mutex EXCEPT !.r = @ \cup {t}]
    /\ th' = [th EXCEPT ![t] = [Idle EXCEPT !.pc = "list_copy"]]
    /\ UNCHANGED <<objects, heap, disk, meta, now, lastPut, deleted, orphans, getCount>>
    /\ lastRet' = NoRet
    /\ UNCHANGED <<listed, clusterVars, replVars, apiVars>>

\* :154-158  a new map holding the same pointers   (deferred RUnlock). The
\* caller keeps the map (`keep`) or is done with it at its next call.
ListCopy(t, keep) ==
    /\ th[t].pc = "list_copy"
    /\ ReturnKeeping(t, [NoRet EXCEPT !.op = "List", !.list = <<objects>>],
                      IF keep THEN <<[ptrs |-> objects, vals |-> Marshal(objects, heap)]>>
                      ELSE listed)
    /\ UNCHANGED <<objects, disk, meta, now, lastPut, deleted, orphans>>
    /\ UNCHANGED <<clusterVars, replVars, apiVars>>

\* The process ends while no call is in progress and starts again:
\* NewFileStore (:24-39) with loadMetadata (:168-174). json.Unmarshal makes one
\* new StorageObject per key of the document; the files stay as they are.
Restart ==
    /\ \A t \in Threads : th[t].pc = "idle"
    /\ objects' = [k \in DOMAIN meta |-> meta[k].ID]
    /\ heap' = [id \in {meta[k].ID : k \in DOMAIN meta} |->
                  meta[CHOOSE k \in DOMAIN meta : meta[k].ID = id]]
    /\ getCount' = Restrict(getCount, DOMAIN heap')
    /\ mutex' = [w |-> {}, r |-> {}]
    /\ lastRet' = [NoRet EXCEPT !.op = "Restart", !.pre = <<Snapshot>>]
    /\ listed' = <<>>
    /\ UNCHANGED <<disk, meta, th, now, lastPut, deleted, orphans>>
    /\ UNCHANGED <<clusterVars, replVars, apiVars>>

\* The clock advances
Tick ==
    /\ now < MaxClock
    /\ now' = now + 1
    /\ UNCHANGED <<storeVars, clusterVars, replVars, apiVars>>

StoreNext ==
    \/ \E t \in Threads, k \in Keys, d \in Streams, c \in ContentTypes : PutBegin(t, k, d, c)
    \/ \E t \in Threads : PutCreate(t)
    \/ \E t \in Threads : PutCopy(t)
    \/ \E t \in Threads : PutRemove(t)
    \/ \E t \in Threads : PutFail(t)
    \/ \E t \in Threads : PutCommit(t)
    \/ \E t \in Threads : PutSave(t)
    \/ \E t \in Threads, k \in Keys : GetBegin(t, k)
    \/ \E t \in Threads : GetNotFound(t)
    \/ \E t \in Threads : GetLoad(t)
    \/ \E t \in Threads : GetStore(t)
    \/ \E t \in Threads : GetOpen(t)
    \/ \E t \in Threads, k \in Keys : DeleteBegin(t, k)
    \/ \E t \in Threads : DeleteNotFound(t)
    \/ \E t \in Threads : DeleteRemove(t)
    \/ \E t \in Threads : DeleteCommit(t)
    \/ \E t \in Threads : ListBegin(t)
    \/ \E t \in Threads : ListCopy(t, FALSE)
    \/ Restart
    \/ Tick

SpecStore == Init /\ [][StoreNext]_vars

\* The store with a caller that keeps the snapshot List gave it
SnapNext ==
    \/ \E t \in Threads, k \in Keys, d \in Streams, c \in ContentTypes : PutBegin(t, k, d, c)
    \/ \E t \in Threads : PutCreate(t)
    \/ \E t \in Threads : PutCopy(t)
    \/ \E t \in Threads : PutRemove(t)
    \/ \E t \in Threads : PutFail(t)
    \/ \E t \in Threads : PutCommit(t)
    \/ \E t \in Threads : PutSave(t)
    \/ \E t \in Threads, k \in Keys : GetBegin(t, k)
    \/ \E t \in Threads : GetNotFound(t)
    \/ \E t \in Threads : GetLoad(t)
    \/ \E t \in Threads : GetStore(t)
    \/ \E t \in Threads : GetOpen(t)
    \/ \E t \in Threads, k \in Keys : DeleteBegin(t, k)
    \/ \E t \in Threads : DeleteNotFound(t)
    \/ \E t \in Threads : DeleteRemove(t)
    \/ \E t \in Threads : DeleteCommit(t)
    \/ \E t \in Threads : ListBegin(t)
    \/ \E t \in Threads : ListCopy(t, TRUE)

SpecSnap == Init /\ [][SnapNext]_vars

\* The process is killed at any point, a call of Put, Get or Delete may be under
\* way, and starts again: the memory is lost, the files and the metadata document
\* are what had reached the disk; NewFileStore (:24-39) loads the document
\* (loadMetadata :168-174).
Crash ==
    /\ objects' = [k \in DOMAIN meta |-> meta[k].ID]
    /\ heap' = [id \in {meta[k].ID : k \in DOMAIN meta} |->
                  meta[CHOOSE k \in DOMAIN meta : meta[k].ID = id]]
    /\ getCount' = [id \in DOMAIN heap' |-> heap'[id].AccessCount]
    /\ mutex' = [w |-> {}, r |-> {}]
    /\ th' = [t \in Threads |-> Idle]
    /\ lastRet' = [NoRet EXCEPT !.op = "Crash", !.pre = <<Snapshot>>]
    /\ listed' = <<>>
    /\ UNCHANGED <<disk, meta, now, lastPut, deleted, orphans>>
    /\ UNCHANGED <<clusterVars, replVars, apiVars>>

\* The store on a machine that can fail
CrashNext ==
    \/ \E t \in Threads, k \in Keys, d \in Streams, c \in ContentTypes : PutBegin(t, k, d, c)
    \/ \E t \in Threads : PutCreate(t)
    \/ \E t \in Threads : PutCopy(t)
    \/ \E t \in Threads : PutRemove(t)
    \/ \E t \in Threads : PutFail(t)
    \/ \E t \in Threads : PutCommit(t)
    \/ \E t \in Threads : PutSave(t)
    \/ \E t \in Threads, k \in Keys : GetBegin(t, k)
    \/ \E t \in Threads : GetNotFound(t)
    \/ \E t \in Threads : GetLoad(t)
    \/ \E t \in Threads : GetStore(t)
    \/ \E t \in Threads : GetOpen(t)
    \/ \E t \in Threads, k \in Keys : DeleteBegin(t, k)
    \/ \E t \in Threads : DeleteNotFound(t)
    \/ \E t \in Threads : DeleteRemove(t)
    \/ \E t \in Threads : DeleteCommit(t)
    \/ \E t \in Threads : ListBegin(t)
    \/ \E t \in Threads : ListCopy(t, FALSE)
    \/ Crash

SpecCrash == Init /\ [][CrashNext]_vars

----------------------------------------------------------------------------
\* ClusterManager (node.go)

\* All orders in which a set can be iterated (Go iterates a map in no fixed order)
Orders(S) == {q \in [1..Cardinality(S) -> S] : \A i, j \in DOMAIN q : q[i] = q[j] => i = j}

\* :65  node.Status == "healthy"
IsHealthy_Any(n) == TRUE

IsHealthy(n) == n.Status = "healthy"

\* GetHealthyNodes (:59-71): the healthy nodes, in the order the map gave them
GetHealthyNodes == Orders({id \in DOMAIN nodes : IsHealthy(nodes[id])})

\* :84-85  float64(node.Used)/float64(node.Capacity) < lowestLoad, for two
\* quotients with positive denominators (lowestLoad starts as 1/1)
Below(u, c, lu, lc) == u * lc < lu * c

\* SelectNodeForWrite (:73-92) over the healthy nodes in order q: the loop from
\* position i on, with the best node so far (<<>> for nil) and the lowest load so far
RECURSIVE WriteLoop(_, _, _, _, _)
WriteLoop(q, i, best, lu, lc) ==
    IF i > Len(q) THEN best
    ELSE LET n == nodes[q[i]] IN
         IF Below(n.Used, n.Capacity, lu, lc)
         THEN WriteLoop(q, i + 1, <<q[i]>>, n.Used, n.Capacity)
         ELSE WriteLoop(q, i + 1, best, lu, lc)

SelectNodeForWriteIn(q) == IF Len(q) = 0 THEN <<>> ELSE WriteLoop(q, 1, <<>>, 1, 1)

TakeFirst_OneMore(q, count) == SubSeq(q, 1, IF count + 1 < Len(q) THEN count + 1 ELSE Len(q))

\* :101-104  the first `count` nodes of the list
TakeFirst(q, count) == SubSeq(q, 1, IF count < Len(q) THEN count ELSE Len(q))

\* SelectNodesForReplication (:94-107) over the healthy nodes in order q
SelectNodesForReplicationIn(q, count) == IF Len(q) <= count THEN q ELSE TakeFirst(q, count)

\* RegisterNode (:49-57): node.LastSeen = time.Now(); cm.nodes[node.ID] = node
RegisterNode(id, st, ld) ==
    /\ nodes' = MapPut(nodes, id, [ID |-> id, Status |-> st, LastSeen |-> now,
                                   Capacity |-> ld[2], Used |-> ld[1]])
    /\ lastSel' = NoSel
    /\ lastSweep' = NoSweep
    /\ UNCHANGED currentNode
    /\ lastRep' = NoRep /\ UNCHANGED <<storeVars, now, tasks, pending, execs, hist, apiVars>>

\* pingNode (:147-157) answers true or false; performHealthCheck (:119-145) asks
\* it of every node that is neither this process's own nor stale. `ping` is the
\* answer each node would give.
IsStale_Never(n) == FALSE

\* :131  now.Sub(node.LastSeen) > 60*time.Second
IsStale(n) == now - n.LastSeen > StaleAfter

Swept_ProbesStale(n, ping) ==
    IF ping THEN [n EXCEPT !.Status = "healthy", !.LastSeen = now]
    ELSE [n EXCEPT !.Status = "unhealthy"]

\* :131-143  what one sweep makes of a node other than this process's own
Swept(n, ping) ==
    IF IsStale(n)
    THEN [n EXCEPT !.Status = "unhealthy"]
    ELSE IF ping THEN [n EXCEPT !.Status = "healthy", !.LastSeen = now]
         ELSE [n EXCEPT !.Status = "unhealthy"]

\* :138  the calls of pingNode one sweep makes: per node, the answers in order
Probes(ping) ==
    [id \in {x \in DOMAIN nodes \ {currentNode.ID} : ~IsStale(nodes[x])} |-> <<ping[id]>>]

performHealthCheck(ping) ==
    /\ nodes' = [id \in DOMAIN nodes |->
                    IF id = currentNode.ID THEN nodes[id] ELSE Swept(nodes[id], ping[id])]
    /\ lastSel' = NoSel
    /\ lastSweep' = [op |-> "sweep", at |-> now, probes |-> Probes(ping)]
    /\ UNCHANGED currentNode
    /\ lastRep' = NoRep /\ UNCHANGED <<storeVars, now, tasks, pending, execs, hist, apiVars>>

\* a caller asks SelectNodeForWrite
SelectNodeForWrite ==
    /\ \E q \in GetHealthyNodes :
         lastSel' = [NoSel EXCEPT !.op = "write", !.one = SelectNodeForWriteIn(q)]
    /\ lastSweep' = NoSweep
    /\ UNCHANGED <<nodes, currentNode>>
    /\ UNCHANGED <<storeVars, now, replVars, apiVars>>

\* a caller asks SelectNodesForReplication(count)
SelectNodesForReplication(count) ==
    /\ \E q \in GetHealthyNodes :
         lastSel' = [NoSel EXCEPT !.op = "replication", !.count = count,
                                  !.many = SelectNodesForReplicationIn(q, count)]
    /\ lastSweep' = NoSweep
    /\ UNCHANGED <<nodes, currentNode>>
    /\ UNCHANGED <<storeVars, now, replVars, apiVars>>

ClusterNext ==
    \/ \E id \in NodeIDs, st \in Statuses, ld \in Loads : RegisterNode(id, st, ld)
    \/ \E ping \in [NodeIDs -> BOOLEAN] : performHealthCheck(ping)
    \/ SelectNodeForWrite
    \/ \E count \in 0..MaxCount : SelectNodesForReplication(count)
    \/ Tick

SpecCluster == Init /\ [][ClusterNext]_vars

----------------------------------------------------------------------------
\* ReplicationManager (manager.go)

\* ClusterManager.GetCurrentNode: called at manager.go:53 and :146
GetCurrentNode == currentNode

InitialStatus_InProgress == "in_progress"

\* :55  Status: "pending"
InitialStatus == "pending"

FinalStatus_AllRequired(successCount, n) == IF successCount = n THEN "completed" ELSE "failed"

\* :107-115  completed when successCount > 0, failed otherwise
FinalStatus(successCount, n) == IF successCount > 0 THEN "completed" ELSE "failed"

markTaskFailed_KeepStatus(task, errorMsg) ==
    [task EXCEPT !.Error = errorMsg, !.CompletedAt = <<now>>]

markTaskFailed_Retry(task, errorMsg) ==
    [task EXCEPT !.Status = "pending", !.Error = errorMsg, !.CompletedAt = <<now>>]

\* markTaskFailed (:157-162)
markTaskFailed(task, errorMsg) ==
    [task EXCEPT !.Status = "failed", !.Error = errorMsg, !.CompletedAt = <<now>>]

\* ReplicateObject (:42-69); `e`: the payload stream ends in an error
ReplicateObject(o, e) ==
    /\ Len(tasks) < MaxTasks
    /\ \E q \in GetHealthyNodes :
         LET targetNodes == SelectNodesForReplicationIn(q, ReplicationFactor)
             p == Len(tasks) + 1
         IN IF Len(targetNodes) = 0
            THEN /\ lastRep' = [NoRep EXCEPT !.op = "ReplicateObject", !.obj = o,
                                             !.err = "NoHealthyTargets"]
                 /\ UNCHANGED <<tasks, pending, execs, hist>>
            ELSE /\ tasks' = Append(tasks, [ObjectID |-> o, SourceNode |-> GetCurrentNode.ID,
                                            TargetNodes |-> targetNodes, Status |-> InitialStatus,
                                            CreatedAt |-> now, CompletedAt |-> <<>>, Error |-> ""])
                 /\ pending' = MapPut(pending, o, p)
                 /\ execs' = MapPut(execs, p, [pc |-> "start", err |-> e, todo |-> {},
                                               flying |-> {}, successCount |-> 0])
                 /\ hist' = MapPut(hist, p, [buffered |-> FALSE, attempts |-> 0, acks |-> 0,
                                             flying |-> 0])
                 /\ lastRep' = [NoRep EXCEPT !.op = "ReplicateObject", !.obj = o, !.task = p]
    /\ UNCHANGED <<storeVars, now, clusterVars, apiVars>>

\* executeReplication :72-73  task.Status = "in_progress"; Store(task.ObjectID, task)
ExecStart(p) ==
    /\ p \in DOMAIN execs /\ execs[p].pc = "start"
    /\ tasks' = [tasks EXCEPT ![p].Status = "in_progress"]
    /\ pending' = MapPut(pending, tasks[p].ObjectID, p)
    /\ execs' = [execs EXCEPT ![p].pc = "buffer"]
    /\ lastRep' = NoRep
    /\ UNCHANGED hist
    /\ UNCHANGED <<storeVars, now, clusterVars, apiVars>>

\* :76-81  io.Copy(buffer, data); on an error markTaskFailed and return.
\* :88-102 otherwise one goroutine per target node is started.
ExecBuffer(p) ==
    /\ p \in DOMAIN execs /\ execs[p].pc = "buffer"
    /\ IF execs[p].err
       THEN /\ tasks' = [tasks EXCEPT ![p] = markTaskFailed(@, "Failed to buffer data")]
            /\ execs' = MapDel(execs, p)
            /\ UNCHANGED hist
       ELSE /\ execs' = [execs EXCEPT ![p].pc = "fanout",
                                      ![p].todo = DOMAIN tasks[p].TargetNodes]
            /\ hist' = [hist EXCEPT ![p].buffered = TRUE]
            /\ UNCHANGED tasks
    /\ lastRep' = NoRep
    /\ UNCHANGED pending
    /\ UNCHANGED <<storeVars, now, clusterVars, apiVars>>

\* :90-100 with replicateToNode :120-133: the goroutine for target i looks the
\* node up among the healthy nodes. When it is not there replicateToNode returns
\* false and the goroutine is done; otherwise the request is sent (:136-148).
\* With `noted`, lastRep keeps what the lookup found, for stating properties.
AttemptBegin(p, i, noted) ==
    /\ p \in DOMAIN execs /\ execs[p].pc = "fanout" /\ i \in execs[p].todo \ execs[p].flying
    /\ LET nID == tasks[p].TargetNodes[i]
           found == nID \in DOMAIN nodes /\ IsHealthy(nodes[nID])
       IN /\ IF found
             THEN /\ execs' = [execs EXCEPT ![p].flying = @ \cup {i}]
                  /\ hist' = [hist EXCEPT ![p].flying = @ + 1]
             ELSE /\ execs' = [execs EXCEPT ![p].todo = @ \ {i}]
                  /\ hist' = [hist EXCEPT ![p].attempts = @ + 1]
          /\ lastRep' = IF noted
                        THEN [NoRep EXCEPT !.op = "replicateToNode", !.obj = nID, !.task = p,
                                           !.err = IF found THEN "" ELSE "NotHealthy"]
                        ELSE NoRep
    /\ UNCHANGED <<tasks, pending>>
    /\ UNCHANGED <<storeVars, now, clusterVars, apiVars>>

\* :148-154 and :93-96, :91: the request of the goroutine for target i ends; `ack`
\* tells whether the node answered 200 (otherwise an error, another status or the
\* client's timeout). successCount++ under the mutex on an acknowledgement; wg.Done().
Attempt(p, i, ack) ==
    /\ p \in DOMAIN execs /\ execs[p].pc = "fanout" /\ i \in execs[p].flying
    /\ execs' = [execs EXCEPT ![p].todo = @ \ {i}, ![p].flying = @ \ {i},
                              ![p].successCount = IF ack THEN @ + 1 ELSE @]
    /\ hist' = [hist EXCEPT ![p].attempts = @ + 1, ![p].flying = @ - 1,
                            ![p].acks = IF ack THEN @ + 1 ELSE @]
    /\ lastRep' = NoRep
    /\ UNCHANGED <<tasks, pending>>
    /\ UNCHANGED <<storeVars, now, clusterVars, apiVars>>

AllDone_FirstResult(p) == execs[p].todo # DOMAIN tasks[p].TargetNodes

\* :104  wg.Wait() returns when every goroutine of the fan-out has called wg.Done()
AllDone(p) == execs[p].todo = {}

\* :104-117  wg.Wait(); the final status; Store(task.ObjectID, task)
ExecFinish(p) ==
    /\ p \in DOMAIN execs /\ execs[p].pc = "fanout" /\ AllDone(p)
    /\ LET st == FinalStatus(execs[p].successCount, Len(tasks[p].TargetNodes)) IN
       tasks' = [tasks EXCEPT ![p] =
                    IF st = "completed"
                    THEN [@ EXCEPT !.Status = "completed", !.CompletedAt = <<now>>]
                    ELSE markTaskFailed(@, "Failed to replicate to any target node")]
    /\ pending' = MapPut(pending, tasks[p].ObjectID, p)
    /\ execs' = MapDel(execs, p)
    /\ lastRep' = NoRep
    /\ UNCHANGED hist
    /\ UNCHANGED <<storeVars, now, clusterVars, apiVars>>

ReplNext ==
    \/ \E o \in ObjIDs, e \in BOOLEAN : ReplicateObject(o, e)
    \/ \E p \in 1..MaxTasks : ExecStart(p)
    \/ \E p \in 1..MaxTasks : ExecBuffer(p)
    \/ \E p \in 1..MaxTasks, i \in 1..ReplicationFactor : AttemptBegin(p, i, FALSE)
    \/ \E p \in 1..MaxTasks, i \in 1..ReplicationFactor, ack \in BOOLEAN : Attempt(p, i, ack)
    \/ \E p \in 1..MaxTasks : ExecFinish(p)
    \* the membership changes while replications run: a node registers as healthy
    \* or unhealthy (what a sweep does to a peer's Status, too)
    \/ \E r \in ReplRegistrations : RegisterNode(r[1], r[2], <<0, SelfCapacity>>)

SpecRepl == Init /\ [][ReplNext]_vars

\* The scheduler lets every goroutine that can take a step take one eventually;
\* reading the payload ends (:77) and every request ends, in an answer, an error
\* or the client's timeout (:38).
ReplFairness ==
    \A p \in 1..MaxTasks :
        /\ WF_vars(ExecStart(p))
        /\ WF_vars(ExecBuffer(p))
        /\ WF_vars(ExecFinish(p))
        /\ \A i \in 1..ReplicationFactor :
              /\ WF_vars(AttemptBegin(p, i, FALSE))
              /\ WF_vars(\E ack \in BOOLEAN : Attempt(p, i, ack))

SpecReplFair == SpecRepl /\ ReplFairness

\* The coordinator while peers register and the health sweep runs
PeerIDs == {"n1"}
\* what the probes of one sweep answer: every node answers, or none does
SweepAnswers == {[id \in NodeIDs |-> b] : b \in BOOLEAN}

ReplSweepNext ==
    \/ \E o \in ObjIDs : ReplicateObject(o, FALSE)
    \/ \E p \in 1..MaxTasks : ExecStart(p)
    \/ \E p \in 1..MaxTasks : ExecBuffer(p)
    \/ \E p \in 1..MaxTasks, i \in 1..ReplicationFactor : AttemptBegin(p, i, TRUE)
    \/ \E p \in 1..MaxTasks, i \in 1..ReplicationFactor, ack \in BOOLEAN : Attempt(p, i, ack)
    \/ \E p \in 1..MaxTasks : ExecFinish(p)
    \/ \E id \in PeerIDs : RegisterNode(id, "healthy", <<0, SelfCapacity>>)
    \/ \E ping \in SweepAnswers : performHealthCheck(ping)

SpecReplSweep == Init /\ [][ReplSweepNext]_vars

----------------------------------------------------------------------------
\* APIServer (handlers.go) as cmd/server/main.go builds it: on the store alone

Users == {"test-user"}

\* trackAccess (:127-136)
trackAccess(objectID, operation, userID, size, t) ==
    Append(patterns, [ObjectID |-> objectID, AccessTime |-> t, Operation |-> operation,
                      UserID |-> userID, Size |-> size])

\* putObject (:45-65), one request served from its start to its response:
\* api.store.Put(key, r.Body, contentType) (:54, the whole of filestore.go:45-99:
\* `created` is the outcome of os.Create, n the bytes io.Copy delivered); on an
\* error the response is 500 (:55-58); otherwise trackAccess (:61) and the
\* descriptor as the response body (:63-64).
putObject(k, d, c, u) ==
    /\ AllIdle
    /\ now < MaxClock
    /\ now' = now + 1
    /\ \E created \in BOOLEAN, n \in 0..MaxLen :
         /\ n <= Len(d.bytes)
         /\ LET id == ObjectID(k, now)
                w == Prefix(d.bytes, n)
                failed == ~created \/ n < Len(d.bytes) \/ d.err
                obj == NewObject(id, k, w, c, now')
            IN IF failed
               THEN /\ disk' = IF created THEN osRemove(MapPut(disk, FilePathOf(id), w), FilePathOf(id))
                                ELSE disk
                    /\ lastRet' = [NoRet EXCEPT !.op = "Put", !.key = k, !.err = "IOFailure",
                                                !.pre = <<Snapshot>>, !.id = id]
                    /\ resp' = [handler |-> "putObject", status |-> 500, body |-> <<>>]
                    /\ UNCHANGED <<objects, heap, meta, lastPut, deleted, orphans, getCount, patterns>>
               ELSE /\ disk' = MapPut(disk, FilePathOf(id), w)
                    /\ objects' = MapPut(objects, k, id)
                    /\ lastRet' = [NoRet EXCEPT !.op = "Put", !.key = k, !.desc = <<obj>>,
                                                !.pre = <<Snapshot>>, !.id = id]
                    /\ heap' = Collect(MapPut(heap, id, obj), objects', th, lastRet', listed)
                    /\ getCount' = Restrict(MapPut(getCount, id, 0), DOMAIN heap')
                    /\ lastPut' = MapPut(lastPut, k, w)
                    /\ orphans' = orphans \cup (IF k \in DOMAIN objects
                                                THEN ReplicaFiles(heap[objects[k]]) ELSE {})
                    /\ deleted' = MapDel(deleted, k)
                    /\ meta' = saveMetadata(objects', heap')
                    /\ patterns' = trackAccess(obj.ID, "write", u, obj.Size, now')
                    /\ resp' = [handler |-> "putObject", status |-> 200, body |-> <<obj>>]
    /\ UNCHANGED <<mutex, th, listed>>
    /\ UNCHANGED <<clusterVars, replVars>>

\* deleteObject (:88-99): api.store.Delete(key) (:92, the whole of
\* filestore.go:128-146); 404 on an error, 204 otherwise
deleteObject(k) ==
    /\ AllIdle
    /\ IF k \notin DOMAIN objects
       THEN /\ lastRet' = [NoRet EXCEPT !.op = "Delete", !.key = k, !.err = "NotFound",
                                        !.pre = <<Snapshot>>]
            /\ resp' = [handler |-> "deleteObject", status |-> 404, body |-> <<>>]
            /\ UNCHANGED <<objects, heap, disk, meta, lastPut, deleted, getCount>>
       ELSE /\ disk' = RemoveReplicas(disk, heap[objects[k]])
            /\ objects' = MapDel(objects, k)
            /\ deleted' = MapPut(deleted, k, ReplicaFiles(heap[objects[k]]))
            /\ lastPut' = MapDel(lastPut, k)
            /\ lastRet' = [NoRet EXCEPT !.op = "Delete", !.key = k, !.pre = <<Snapshot>>]
            /\ heap' = Collect(heap, objects', th, lastRet', listed)
            /\ getCount' = Restrict(getCount, DOMAIN heap')
            /\ meta' = saveMetadata(objects', heap')
            /\ resp' = [handler |-> "deleteObject", status |-> 204, body |-> <<>>]
    /\ UNCHANGED <<mutex, th, listed, now, orphans, patterns>>
    /\ UNCHANGED <<clusterVars, replVars>>

\* healthCheck (:122-125)
healthCheck ==
    /\ resp' = [handler |-> "healthCheck", status |-> 200, body |-> <<"healthy">>]
    /\ UNCHANGED <<storeVars, now, clusterVars, replVars, patterns>>

ApiNext ==
    \/ \E k \in Keys, d \in Streams, c \in ContentTypes, u \in Users : putObject(k, d, c, u)
    \/ \E k \in Keys : deleteObject(k)
    \/ healthCheck

SpecApi == Init /\ [][ApiNext]_vars

----------------------------------------------------------------------------
\* Properties of the store

IndexedFiles == UNION {{heap[objects[k]].Replicas[i].FilePath : i \in DOMAIN heap[objects[k]].Replicas}
                       : k \in DOMAIN objects}

\* C1: when Get(k) returns and the last successful Put on k, not followed by a
\* Delete of k, wrote the bytes b, then the Get did not answer NotFound, the
\* backing file of k's entry holds exactly b (so only a failure of the open itself
\* can make the Get fail), and a successful Get returns a stream reading exactly b
\* with a descriptor whose Checksum is the hash of b and whose Size is len(b).
C1_PutThenGet ==
    (lastRet.op = "Get" /\ lastRet.key \in DOMAIN lastPut) =>
        LET k == lastRet.key
            b == lastPut[k]
        IN /\ lastRet.err # "NotFound"
           /\ k \in DOMAIN objects
           /\ heap[objects[k]].Replicas[1].FilePath \in DOMAIN disk
           /\ disk[heap[objects[k]].Replicas[1].FilePath] = b
           /\ lastRet.err = "" =>
                /\ lastRet.bytes = b
                /\ lastRet.desc[1].Checksum = Md5(b)
                /\ lastRet.desc[1].Size = Len(b)
                /\ lastRet.desc[1].Key = k

\* a Get returned the non-empty payload of an earlier Put
C1_Witness ==
    /\ lastRet.op = "Get" /\ lastRet.err = ""
    /\ lastRet.key \in DOMAIN lastPut
    /\ lastRet.bytes = lastPut[lastRet.key]
    /\ Len(lastRet.bytes) = MaxLen

\* C2: from the return of a successful Delete(k) until the next successful Put(k),
\* k has no index entry, a Get(k) that returns answers NotFound, a List that
\* returns does not contain k, and no file the deleted entry's Replicas listed exists.
C2_DeleteRemoves ==
    \A k \in DOMAIN deleted :
        /\ k \notin DOMAIN objects
        /\ k \notin DOMAIN meta
        /\ deleted[k] # {}
        /\ deleted[k] \cap DOMAIN disk = {}
        /\ (lastRet.op = "Get" /\ lastRet.key = k) => lastRet.err = "NotFound"
        /\ lastRet.op = "List" => k \notin DOMAIN lastRet.list[1]

\* a Get after a Delete of the same key returned NotFound
C2_Witness ==
    /\ lastRet.op = "Get" /\ lastRet.err = "NotFound"
    /\ lastRet.key \in DOMAIN deleted

\* C3: a successful Put under a key that had an index entry leaves exactly one
\* entry for the key, with the new ID, the new payload's Size and Checksum,
\* AccessCount 0 and StorageTier hot; the file of the replaced version is still on
\* disk; and the files of replaced versions stay on disk, referenced by no index
\* entry, whatever is deleted later.
C3_RePutOrphans ==
    /\ \A f \in orphans : f \in DOMAIN disk /\ f \notin IndexedFiles
    /\ (lastRet.op = "Put" /\ lastRet.err = "" /\ lastRet.key \in DOMAIN lastRet.pre[1].index) =>
          LET k == lastRet.key
              old == lastRet.pre[1].index[k]
              o == heap[objects[k]]
          IN /\ Cardinality({x \in DOMAIN objects : heap[objects[x]].Key = k}) = 1
             /\ o.ID = lastRet.id /\ o.ID # old.ID
             /\ o = lastRet.desc[1]
             /\ o.Size = Len(lastPut[k]) /\ o.Checksum = Md5(lastPut[k])
             /\ o.AccessCount = 0 /\ o.StorageTier = "hot"
             /\ old.Replicas[1].FilePath \in orphans

\* a key was put twice and then deleted: the first version's file is still there
C3_Witness ==
    \E k \in DOMAIN deleted, f \in orphans : f[2] = k /\ f \in DOMAIN disk

\* C4: the AccessCount of every indexed object is the number of Gets that updated
\* it, whatever goroutines made them and however they interleave with other calls;
\* one step changes it by at most one; and LastAccess never decreases.
C4_CountInv ==
    \A k \in DOMAIN objects :
        heap[objects[k]].AccessCount = getCount[objects[k]]

C4_Step ==
    \A p \in DOMAIN heap \cap DOMAIN heap' :
        /\ heap'[p].LastAccess >= heap[p].LastAccess
        /\ heap'[p].AccessCount \in {heap[p].AccessCount, heap[p].AccessCount + 1}
        /\ \A t \in Threads :
             (th[t].pc = "get_store" /\ th'[t].pc = "get_open" /\ th[t].obj = p)
                => heap'[p].AccessCount = heap[p].AccessCount + 1

C4_GetCounts == [](C4_CountInv) /\ [][C4_Step]_vars

\* a goroutine inside Get has just updated an object for the second time, and
\* another key has been read too
C4_Witness ==
    \E t \in Threads, k2 \in DOMAIN objects :
        /\ th[t].pc = "get_open"
        /\ objects[k2] # th[t].obj
        /\ heap[th[t].obj].AccessCount = 2
        /\ heap[th[t].obj].LastAccess > heap[th[t].obj].CreatedAt
        /\ heap[objects[k2]].AccessCount >= 1

\* C9: when Put returns an error, the error is an IOFailure, the file the Put
\* would have written does not exist, and the index and the persisted document
\* are as they were when the call started.
C9_FailedPut ==
    (lastRet.op = "Put" /\ lastRet.err # "") =>
        /\ lastRet.err = "IOFailure"
        /\ FilePathOf(lastRet.id) \notin DOMAIN disk
        /\ Marshal(objects, heap) = lastRet.pre[1].index
        /\ meta = lastRet.pre[1].meta

\* a Put on an indexed key failed
C9_Witness ==
    /\ lastRet.op = "Put" /\ lastRet.err = "IOFailure"
    /\ lastRet.key \in DOMAIN objects
    /\ objects # <<>>

----------------------------------------------------------------------------
\* Properties of the membership

HealthyIDs == {id \in DOMAIN nodes : nodes[id].Status = "healthy"}

\* C5: what SelectNodesForReplication(n) returned holds at most n nodes, no node
\* twice, every one of them healthy; and all the healthy nodes when there are at
\* most n of them.
C5_ReplicationSelection ==
    lastSel.op = "replication" =>
        LET r == lastSel.many
            n == lastSel.count
        IN /\ Len(r) <= n
           /\ \A i, j \in DOMAIN r : r[i] = r[j] => i = j
           /\ \A i \in DOMAIN r : r[i] \in HealthyIDs
           /\ Cardinality(HealthyIDs) <= n => {r[i] : i \in DOMAIN r} = HealthyIDs

\* more nodes are healthy than were asked for, one node is not healthy, and the
\* query returned as many nodes as were asked for
C5_Witness ==
    /\ lastSel.op = "replication" /\ lastSel.count >= 1
    /\ Len(lastSel.many) = lastSel.count
    /\ Cardinality(HealthyIDs) > lastSel.count
    /\ DOMAIN nodes # HealthyIDs

\* C10 (as claimed): SelectNodeForWrite returns none exactly when no node is
\* healthy, and otherwise a healthy node whose Used/Capacity is the least among
\* the healthy nodes.
C10_WriteSelection ==
    lastSel.op = "write" =>
        /\ lastSel.one = <<>> <=> HealthyIDs = {}
        /\ lastSel.one # <<>> =>
              LET b == nodes[lastSel.one[1]] IN
              /\ b.Status = "healthy"
              /\ \A id \in HealthyIDs : b.Used * nodes[id].Capacity <= nodes[id].Used * b.Capacity

----------------------------------------------------------------------------
\* Properties of the coordinator

Finished(p) == p \in DOMAIN tasks /\ p \notin DOMAIN execs

\* C6 (as claimed): when no node other than this process's own is healthy,
\* ReplicateObject returns NoHealthyTargets and creates no task.
C6_NoPeerNoTask ==
    (lastRep.op = "ReplicateObject" /\ HealthyIDs \ {currentNode.ID} = {}) =>
        /\ lastRep.err = "NoHealthyTargets"
        /\ lastRep.task = 0

\* C7: a task whose executeReplication has ended is completed exactly when at
\* least one target acknowledged, and failed with an Error otherwise; when the
\* payload could not be buffered it is failed with an Error and no transfer was
\* attempted; otherwise every target was attempted.
C7_FinalStatus ==
    \A p \in DOMAIN tasks :
        Finished(p) =>
            /\ tasks[p].Status = "completed" <=> hist[p].acks >= 1
            /\ tasks[p].Status # "completed" => tasks[p].Status = "failed" /\ tasks[p].Error # ""
            /\ tasks[p].Status = "completed" => tasks[p].Error = ""
            /\ hist[p].attempts \in {0, Len(tasks[p].TargetNodes)}
            /\ hist[p].attempts = 0 =>
                  tasks[p].Status = "failed" /\ tasks[p].Error = "Failed to buffer data"

\* one task completed on one acknowledgement out of two targets, another failed
\* with both targets attempted
C7_Witness ==
    \E p, r \in DOMAIN tasks :
        /\ Finished(p) /\ Finished(r)
        /\ Len(tasks[p].TargetNodes) = 2 /\ hist[p].acks = 1 /\ tasks[p].Status = "completed"
        /\ hist[r].attempts = 2 /\ tasks[r].Status = "failed"

\* C8: a task record is created pending, and its Status only ever steps from
\* pending to in_progress and from in_progress to completed or failed.
C8_Step ==
    \A p \in DOMAIN tasks' :
        IF p \in DOMAIN tasks
        THEN \/ tasks'[p].Status = tasks[p].Status
             \/ tasks[p].Status = "pending" /\ tasks'[p].Status = "in_progress"
             \/ tasks[p].Status = "in_progress" /\ tasks'[p].Status \in {"completed", "failed"}
        ELSE tasks'[p].Status = "pending"

C8_StatusOrder == [][C8_Step]_vars

\* one record is pending, another has reached a final status
C8_Witness ==
    \E p, r \in DOMAIN tasks :
        /\ tasks[p].Status = "failed" /\ hist[p].attempts > 0
        /\ tasks[r].Status = "pending"

----------------------------------------------------------------------------
\* Further properties of the membership

\* C11 (as claimed): whatever is registered and swept, this process's own node
\* has Status healthy and the node the membership holds under its ID is among
\* the nodes GetHealthyNodes returns.
C11_SelfPinned ==
    /\ currentNode.Status = "healthy"
    /\ currentNode.ID \in HealthyIDs

\* C12 (as claimed): a peer registered with Status unknown and not swept since
\* is eligible for placement: a SelectNodesForReplication that asks for at least
\* as many nodes as are known returns it, and SelectNodeForWrite returns none
\* only if every such peer is full.
C12_UnknownEligible ==
    LET fresh == {id \in DOMAIN nodes \ {currentNode.ID} : nodes[id].Status = "unknown"} IN
    /\ (lastSel.op = "replication" /\ lastSel.count >= Cardinality(DOMAIN nodes)) =>
          \A id \in fresh : \E i \in DOMAIN lastSel.many : lastSel.many[i] = id
    /\ (lastSel.op = "write" /\ lastSel.one = <<>>) =>
          \A id \in fresh : nodes[id].Used >= nodes[id].Capacity

\* C18: one health sweep does this for every node other than this process's
\* own: if the node's LastSeen is older than the staleness window it becomes
\* unhealthy, is otherwise unchanged, and no probe is sent to it; if not, exactly
\* one probe is sent, and the node becomes healthy with LastSeen set to the time
\* of the sweep when the probe succeeds, and unhealthy with LastSeen unchanged
\* when it fails. The own node is not probed and not changed, and no node is
\* added or removed.
C18_Step ==
    (lastSweep' # lastSweep /\ lastSweep'.op = "sweep") =>
        LET probes == lastSweep'.probes IN
        /\ DOMAIN nodes' = DOMAIN nodes
        /\ lastSweep'.at = now
        /\ currentNode.ID \notin DOMAIN probes
        /\ currentNode.ID \in DOMAIN nodes => nodes'[currentNode.ID] = nodes[currentNode.ID]
        /\ \A id \in DOMAIN nodes \ {currentNode.ID} :
              IF now - nodes[id].LastSeen > StaleAfter
              THEN /\ id \notin DOMAIN probes
                   /\ nodes'[id] = [nodes[id] EXCEPT !.Status = "unhealthy"]
              ELSE /\ id \in DOMAIN probes
                   /\ Len(probes[id]) = 1
                   /\ probes[id][1] =>
                         nodes'[id] = [nodes[id] EXCEPT !.Status = "healthy", !.LastSeen = now]
                   /\ ~probes[id][1] => nodes'[id] = [nodes[id] EXCEPT !.Status = "unhealthy"]

C18_Sweep == [][C18_Step]_vars

\* a sweep left one peer unhealthy for being stale, without a probe, and made
\* another healthy on a successful probe, with its LastSeen refreshed
C18_Witness ==
    /\ lastSweep.op = "sweep" /\ lastSweep.at = now
    /\ \E a, b \in DOMAIN nodes \ {currentNode.ID} :
          /\ a \notin DOMAIN lastSweep.probes
          /\ now - nodes[a].LastSeen > StaleAfter /\ nodes[a].Status = "unhealthy"
          /\ b \in DOMAIN lastSweep.probes /\ lastSweep.probes[b][1]
          /\ nodes[b].Status = "healthy" /\ nodes[b].LastSeen = now

----------------------------------------------------------------------------
\* Further properties of the coordinator

\* C13: ReplicateObject returns NoHealthyTargets exactly when no node is healthy;
\* otherwise it returns ok, and at its return a task for the object ID is in the
\* table, pending, with no transfer attempted and its payload not yet read. A
\* task that fails later is in the table of tasks all the same: its caller was
\* given ok (only calls that return ok make a task).
C13_OkBeforeOutcome ==
    /\ lastRep.op = "ReplicateObject" =>
          /\ lastRep.err = "NoHealthyTargets" <=> HealthyIDs = {}
          /\ lastRep.err = "" <=> lastRep.task # 0
          /\ lastRep.err \in {"", "NoHealthyTargets"}
          /\ lastRep.task # 0 =>
                /\ lastRep.task \in DOMAIN tasks
                /\ lastRep.obj \in DOMAIN pending /\ pending[lastRep.obj] = lastRep.task
                /\ tasks[lastRep.task].ObjectID = lastRep.obj
                /\ tasks[lastRep.task].Status = "pending"
                /\ tasks[lastRep.task].TargetNodes # <<>>
                /\ ~hist[lastRep.task].buffered /\ hist[lastRep.task].attempts = 0
    /\ \A p \in DOMAIN tasks :
          /\ tasks[p].ObjectID \in DOMAIN pending
          /\ tasks[p].TargetNodes # <<>>

\* a call returned ok for an object whose earlier task, also answered ok, has
\* failed with every transfer attempted
C13_Witness ==
    /\ lastRep.op = "ReplicateObject" /\ lastRep.err = "" /\ lastRep.task > 1
    /\ \E p \in DOMAIN tasks :
          /\ p < lastRep.task /\ tasks[p].ObjectID = lastRep.obj
          /\ tasks[p].Status = "failed" /\ hist[p].buffered
          /\ hist[p].attempts = Len(tasks[p].TargetNodes)

\* C15 (as claimed): the table shows, for every object ID, the task initiated
\* last for it.
C15_NewestRecord ==
    \A o \in DOMAIN pending :
        \A p \in DOMAIN tasks : tasks[p].ObjectID = o => p <= pending[o]

\* C16: a task whose payload was buffered has a final status only when the call
\* of replicateToNode for every one of its targets has returned and none of its
\* requests is unanswered, whatever the order of the attempts and whichever fail.
C16_AwaitsAll ==
    \A p \in DOMAIN tasks :
        (hist[p].buffered /\ tasks[p].Status \in {"completed", "failed"}) =>
            /\ hist[p].attempts = Len(tasks[p].TargetNodes)
            /\ hist[p].flying = 0

\* a task with two targets is completed: one attempt failed, the other was
\* acknowledged
C16_Witness ==
    \E p \in DOMAIN tasks :
        /\ hist[p].buffered /\ tasks[p].Status = "completed"
        /\ Len(tasks[p].TargetNodes) = 2
        /\ hist[p].attempts = 2 /\ hist[p].acks = 1 /\ hist[p].flying = 0

\* C17: every task that ReplicateObject records is eventually completed or failed.
C17_Terminates ==
    \A p \in 1..MaxTasks :
        (p \in DOMAIN tasks) ~> (p \in DOMAIN tasks /\ tasks[p].Status \in {"completed", "failed"})

\* every task that could be recorded has a final status, one of each kind
C17_Witness ==
    /\ Len(tasks) = MaxTasks
    /\ \A p \in DOMAIN tasks : tasks[p].Status \in {"completed", "failed"}
    /\ \E p, r \in DOMAIN tasks : tasks[p].Status = "completed" /\ tasks[r].Status = "failed"

-----------------------------------------------------------------------------
\* Further properties of the store

\* C19: whenever no store call is in progress the metadata document equals the
\* index, value for value; and the index that NewFileStore loads at a restart is
\* exactly the index the last completed call left.
C19_Persisted ==
    /\ AllIdle => meta = Marshal(objects, heap)
    /\ (lastRet.op \in {"Put", "Get", "Delete"} /\ lastRet.err = "") =>
           meta = Marshal(objects, heap)
    /\ lastRet.op = "Restart" =>
           /\ Marshal(objects, heap) = lastRet.pre[1].index
           /\ meta = lastRet.pre[1].meta

\* a restart after Puts, a Get and a Delete found an object that had been read
C19_Witness ==
    /\ lastRet.op = "Restart"
    /\ DOMAIN deleted # {}
    /\ \E k \in DOMAIN objects : heap[objects[k]].AccessCount >= 1

\* C14: a map that List returned keeps reporting what it reported when List
\* returned: for each of its keys the Size, Checksum, AccessCount and LastAccess
\* read through it are unchanged by every later Put, Get and Delete.
C14_SnapshotNotLive ==
    listed # <<>> =>
        \A k \in DOMAIN listed[1].ptrs :
            LET o == heap[listed[1].ptrs[k]]
                v == listed[1].vals[k]
            IN /\ o.Size = v.Size
               /\ o.Checksum = v.Checksum
               /\ o.AccessCount = v.AccessCount
               /\ o.LastAccess = v.LastAccess

\* the calls that take the exclusive lock and have not returned yet
InWriteCall == {t \in Threads : th[t].pc \notin {"idle", "list_copy"}}

\* C20: Put, Get and Delete take effect one at a time, in the order in which they
\* get the lock. At most one of them is under way, and none while a List is. Each
\* returns what the sequential operation returns on the index it found, and leaves
\* the index that operation leaves: a Get of a missing key answers NotFound and
\* changes nothing, a Get of an indexed key counts one access on that entry only
\* and, when it succeeds, returns that entry and the whole payload it describes; a
\* Delete of a missing key answers NotFound and changes nothing, any other Delete
\* removes that entry only; a successful Put sets that entry only, a failed Put
\* changes nothing. Every indexed entry that is not being deleted has a backing
\* file holding exactly the bytes of the Put that made the entry.
C20_LockOrder ==
    /\ Cardinality(InWriteCall) <= 1
    /\ InWriteCall # {} => \A t \in Threads : th[t].pc # "list_copy"
    /\ \A k \in DOMAIN objects :
          (\A t \in Threads : ~(th[t].pc = "del_commit" /\ th[t].key = k)) =>
              LET o == heap[objects[k]]
                  f == o.Replicas[1].FilePath
              IN /\ f \in DOMAIN disk
                 /\ disk[f] = lastPut[k]
                 /\ o.Size = Len(disk[f]) /\ o.Checksum = Md5(disk[f])
    /\ lastRet.op \in {"Put", "Get", "Delete"} =>
          LET k == lastRet.key
              pre == lastRet.pre[1].index
              post == Marshal(objects, heap)
          IN CASE lastRet.op = "Get" ->
                    IF k \notin DOMAIN pre
                    THEN lastRet.err = "NotFound" /\ post = pre
                    ELSE /\ lastRet.err \in {"", "IOFailure"}
                         /\ k \in DOMAIN post
                         /\ post = [pre EXCEPT ![k].AccessCount = @ + 1,
                                               ![k].LastAccess = post[k].LastAccess]
                         /\ post[k].LastAccess >= pre[k].LastAccess
                         /\ lastRet.err = "" =>
                               /\ lastRet.desc = <<post[k]>>
                               /\ Len(lastRet.bytes) = pre[k].Size
                               /\ Md5(lastRet.bytes) = pre[k].Checksum
               [] lastRet.op = "Delete" ->
                    IF k \notin DOMAIN pre
                    THEN lastRet.err = "NotFound" /\ post = pre
                    ELSE lastRet.err = "" /\ post = MapDel(pre, k)
               [] lastRet.op = "Put" ->
                    IF lastRet.err = ""
                    THEN /\ post = MapPut(pre, k, lastRet.desc[1])
                         /\ lastRet.desc[1].Key = k /\ lastRet.desc[1].ID = lastRet.id
                    ELSE post = pre

\* a Get came after a Delete of its key and answered NotFound, while another key,
\* put in between, is indexed
C20_Witness ==
    /\ lastRet.op = "Get" /\ lastRet.err = "NotFound"
    /\ lastRet.key \in DOMAIN deleted
    /\ DOMAIN objects # {}

\* C25 (as claimed): a Get that returns an error, for an unknown key or because
\* the backing file cannot be opened, leaves the index (AccessCount and
\* LastAccess included) and the metadata document as they were when it started,
\* so that AccessCount counts the successful Gets only.
C25_FailedGetNoTrace ==
    (lastRet.op = "Get" /\ lastRet.err # "") =>
        /\ Marshal(objects, heap) = lastRet.pre[1].index
        /\ meta = lastRet.pre[1].meta

\* C23 (as claimed): whenever no call is under way, and so also in the state
\* loaded after a crash inside Put, Get or Delete, every key in the index refers
\* to backing files that exist on disk.
C23_EntryHasFile ==
    AllIdle =>
        \A k \in DOMAIN objects :
            \A i \in DOMAIN heap[objects[k]].Replicas :
                heap[objects[k]].Replicas[i].FilePath \in DOMAIN disk

-----------------------------------------------------------------------------
\* Further properties of the membership, the coordinator and the transport layer

\* C22: a peer whose LastSeen is older than the staleness window stays so until
\* RegisterNode is called for its ID (which sets LastSeen to the time of the call):
\* no other step changes its LastSeen or makes it healthy, every sweep leaves it
\* unhealthy and sends it no probe, whatever the probe would have answered, and
\* once unhealthy it stays unhealthy.
C22_Step ==
    \A id \in DOMAIN nodes \ {currentNode.ID} :
        now - nodes[id].LastSeen > StaleAfter =>
            /\ id \in DOMAIN nodes'
            /\ \/ /\ nodes'[id].LastSeen = now
                  /\ lastSweep' = NoSweep
               \/ /\ nodes'[id].LastSeen = nodes[id].LastSeen
                  /\ now' - nodes'[id].LastSeen > StaleAfter
                  /\ nodes'[id] \in {nodes[id], [nodes[id] EXCEPT !.Status = "unhealthy"]}
                  /\ nodes[id].Status = "unhealthy" => nodes'[id].Status = "unhealthy"
                  /\ (lastSweep' # lastSweep /\ lastSweep'.op = "sweep") =>
                        /\ nodes'[id].Status = "unhealthy"
                        /\ id \notin DOMAIN lastSweep'.probes

C22_StaleStays == [][C22_Step]_vars

\* a sweep found every peer stale: it sent no probe and two peers are unhealthy
C22_Witness ==
    /\ lastSweep.op = "sweep" /\ lastSweep.at = now
    /\ DOMAIN lastSweep.probes = {}
    /\ \E a, b \in DOMAIN nodes \ {currentNode.ID} :
          /\ a # b
          /\ now - nodes[a].LastSeen > StaleAfter /\ nodes[a].Status = "unhealthy"
          /\ now - nodes[b].LastSeen > StaleAfter /\ nodes[b].Status = "unhealthy"

\* C24: when the goroutine for a target of a running task makes its lookup, a
\* request is sent exactly if the target is registered and healthy at that
\* moment; if it is not, for instance because a sweep marked it unhealthy after
\* ReplicateObject selected it, the attempt ends at once as a failure: no request
\* goes out and no success is counted. Requests go out in no other way.
C24_Step ==
    /\ \A p \in DOMAIN execs \cap DOMAIN execs' :
          \A i \in DOMAIN tasks[p].TargetNodes :
              (/\ execs[p].pc = "fanout"
               /\ i \in execs[p].todo \ execs[p].flying
               /\ i \in execs'[p].flying \/ i \notin execs'[p].todo) =>
                  LET nID == tasks[p].TargetNodes[i]
                      healthy == nID \in DOMAIN nodes /\ nodes[nID].Status = "healthy"
                  IN /\ healthy =>
                          /\ i \in execs'[p].flying /\ i \in execs'[p].todo
                          /\ hist'[p].flying = hist[p].flying + 1
                          /\ hist'[p].attempts = hist[p].attempts
                     /\ ~healthy =>
                          /\ i \notin execs'[p].flying /\ i \notin execs'[p].todo
                          /\ hist'[p].flying = hist[p].flying
                          /\ hist'[p].attempts = hist[p].attempts + 1
                          /\ hist'[p].acks = hist[p].acks
                          /\ execs'[p].successCount = execs[p].successCount
    /\ \A p \in DOMAIN hist \cap DOMAIN hist' :
          hist'[p].flying > hist[p].flying =>
              \E i \in execs'[p].flying \ execs[p].flying :
                  /\ tasks[p].TargetNodes[i] \in DOMAIN nodes
                  /\ nodes[tasks[p].TargetNodes[i]].Status = "healthy"

C24_HealthyAtAttempt == [][C24_Step]_vars

\* a sweep marked a selected target unhealthy on a failed probe; the lookup for
\* that target then found it not healthy and sent nothing, while another target
\* has acknowledged and every attempt has ended: the task is about to complete
C24_Witness ==
    /\ lastRep.op = "replicateToNode" /\ lastRep.err = "NotHealthy"
    /\ lastRep.task \in DOMAIN execs
    /\ execs[lastRep.task].todo = {} /\ execs[lastRep.task].successCount >= 1
    /\ FinalStatus(execs[lastRep.task].successCount,
                   Len(tasks[lastRep.task].TargetNodes)) = "completed"
    /\ lastSweep.op = "sweep"
    /\ lastRep.obj \in DOMAIN lastSweep.probes
    /\ lastSweep.probes[lastRep.obj] = <<FALSE>>
    /\ nodes[lastRep.obj].Status = "unhealthy"

\* C21 (as claimed): when the transport layer has answered a write request with
\* success, the object being stored by Put, it has called ReplicateObject for the
\* object: the coordinator has a task for it or has answered NoHealthyTargets.
C21_PutThenReplicate ==
    (resp.handler = "putObject" /\ resp.status = 200) =>
        /\ lastRep.op = "ReplicateObject"
        /\ lastRep.err = "NoHealthyTargets" \/ lastRep.task \in DOMAIN tasks

====
